---- MODULE Spec2Model ----
(***************************************************************************)
(* registre: a command-line time tracker (src/src/registre/main.py).       *)
(*                                                                         *)
(* The state is the table `reg` of the sqlite file, kept as the sequence   *)
(* of its rows in insertion order.  Timestamps are the stored Unix-epoch   *)
(* numbers; NULL stands for SQL NULL / Python None.  One action per CLI    *)
(* command; a command reads the wall clock itself, and the wall clock is   *)
(* not monotonic, so every clock read is an arbitrary value of Times.      *)
(*                                                                         *)
(* Spec       the start and stop commands of one process, free clock       *)
(* SpecMono   the same commands under a strictly increasing clock          *)
(* SpecStore  innit and the commands over every state of the storage file, *)
(*            with statements that raise                                   *)
(* SpecRace   stop run by two processes, its read and its write apart      *)
(* SpecPure   select_last and the report aggregation over arbitrary tables *)
(* SpecCal    select_day, select_week, select_month over calendar instants *)
(***************************************************************************)
EXTENDS Integers, Sequences, FiniteSets, TLC

\* ---- bounds ----
MaxRecords == 3
MaxTime == 1
\* greatest value of the strictly increasing clock of SpecMono
MaxClock == 6
\* rows in the table of SpecRace
RaceRecords == 2
\* rows in the table of SpecStore
StoreRecords == 2
\* rows in the tables of SpecPure
PureRows == 2
\* greatest OFFSET given to the period queries of SpecCal
MaxOffset == 12

Times == 0..MaxTime
\* the PROJECT TASK argument pairs given to start
Args == {<<"p1", "t1">>, <<"p2", "t2">>}
Projects == {a[1] : a \in Args}
Tasks == {a[2] : a \in Args}

\* SQL NULL / Python None in a column or a result
NULL == -1
\* select_last called without a project argument
NoProject == "<none>"

\* reg    the rows of table reg, in insertion order
\* ev     the last command: arguments, outcome (history, read by the properties)
\* db     the storage file: "absent", "empty" (a file without the table), "ready"
\* clock  the value of the last clock read when the clock is strictly increasing;
\*        NULL when the clock is free to step back
\* out    the answer of the last query
\* pc     the position of each process that runs stop step by step
VARIABLES reg, ev, db, clock, out, pc
vars == <<reg, ev, db, clock, out, pc>>

\* class Record(NamedTuple)
Record == [id : Nat \ {0}, project : Projects, task : Tasks,
           start : Times, stop : Times \cup {NULL}]

\* select_last's answer None, in the shape of a row so that it compares with rows
None == [id |-> 0, project |-> "", task |-> "", start |-> NULL, stop |-> NULL]

\* the processes of SpecRace; each is idle or holds the row its select_last returned
Procs == {1, 2}
Idle == [p \in Procs |-> [at |-> "idle", last |-> None]]

\* the values a clock read can return after a read that returned c
Reads(c) == IF clock = NULL THEN Times ELSE {t \in 0..MaxClock : t > c}
\* the last clock read, kept only when the clock is strictly increasing
Tick(t) == IF clock = NULL THEN NULL ELSE t

\* ---- helpers over the table ----
Rows(r) == {r[i] : i \in 1..Len(r)}

MaxOf(S) == CHOOSE x \in S : \A y \in S : y <= x

\* rows with stop IS NULL (the query of `current`)
OpenRows(r) == {x \in Rows(r) : x.stop = NULL}

\* NextId that hands out the greatest id again instead of the one after it
NextId_reuse(r) == IF Len(r) = 0 THEN 1 ELSE MaxOf({x.id : x \in Rows(r)})

\* id of an inserted row: INTEGER PRIMARY KEY, no value supplied
NextId(r) == IF Len(r) = 0 THEN 1 ELSE MaxOf({x.id : x \in Rows(r)}) + 1

\* select_last with ORDER BY start ASC: the rows of the least start
select_last_asc(r, project) ==
    LET cand == IF project /= NoProject /\ project /= ""
                THEN {x \in Rows(r) : x.project = project}
                ELSE Rows(r)
    IN  {x \in cand : \A y \in cand : y.start >= x.start}

\* select_last: the rows that ORDER BY start DESC LIMIT 1 can return; SQL
\* leaves the order of equal keys open, so every row with the greatest start
\* is a possible answer.  The empty set is the answer None.
select_last(r, project) ==
    LET cand == IF project /= NoProject /\ project /= ""
                THEN {x \in Rows(r) : x.project = project}
                ELSE Rows(r)
    IN  {x \in cand : \A y \in cand : y.start <= x.start}

\* the values `last` can take in a command
LastOf(r) == IF select_last(r, NoProject) = {} THEN {None}
             ELSE select_last(r, NoProject)

\* the UPDATE with a re-check, WHERE id=? AND stop IS NULL
Update_ifopen(r, id, now) ==
    [i \in 1..Len(r) |-> IF r[i].id = id /\ r[i].stop = NULL
                         THEN [r[i] EXCEPT !.stop = now] ELSE r[i]]

\* the UPDATE without its WHERE clause: every row gets the stop
Update_nowhere(r, id, now) ==
    [i \in 1..Len(r) |-> [r[i] EXCEPT !.stop = now]]

\* UPDATE reg SET stop=? WHERE id=?
Update(r, id, now) ==
    [i \in 1..Len(r) |-> IF r[i].id = id THEN [r[i] EXCEPT !.stop = now] ELSE r[i]]

\* the INSERT with the project and task parameters in each other's place
Insert_swapped(r, project, task, start) ==
    Append(r, [id |-> NextId(r), project |-> task, task |-> project,
               start |-> start, stop |-> NULL])

\* INSERT INTO reg (project, task, start) VALUES (?, ?, ?)
Insert(r, project, task, start) ==
    Append(r, [id |-> NextId(r), project |-> project, task |-> task,
               start |-> start, stop |-> NULL])

\* the early return without its `last.stop is not None` half
NothingToStop_nocheck(last) == last = None

\* the row of an id
RowOf(r, id) == CHOOSE x \in Rows(r) : x.id = id

\* the stop command never writes when nothing is selected or the selected row is closed
NothingToStop(last) == last = None \/ last.stop /= NULL

\* table after the body of stop() has run with `last` selected and `now` read
StopRows(r, last, now) ==
    IF NothingToStop(last) THEN r ELSE Update(r, last.id, now)

\* what the last command was given and what it did: its arguments, the value
\* of its first clock read, its outcome, and the id it closed (0: none)
Event(op, outcome, project, task, now, closed) ==
    [op |-> op, outcome |-> outcome, project |-> project, task |-> task,
     now |-> now, closed |-> closed]

\* innit on an absent file: CREATE TABLE reg, no rows
Init ==
    /\ reg = <<>>
    /\ ev = Event("innit", "created", "", "", NULL, 0)
    /\ db = "ready"
    /\ clock = NULL
    /\ out = <<>>
    /\ pc = Idle

\* registre stop (after the group callback, as for start)
stop ==
    /\ db = "ready"
    /\ UNCHANGED <<db, out, pc>>
    /\ \E last \in LastOf(reg) :
        IF NothingToStop(last)
        THEN /\ reg' = reg
             /\ ev' = Event("stop", "nothing", "", "", NULL, 0)
             /\ clock' = clock
        ELSE \E now \in Reads(clock) :
             /\ reg' = StopRows(reg, last, now)
             /\ ev' = Event("stop", "stopped", "", "", now, last.id)
             /\ clock' = Tick(now)

\* start with click.confirm(..., abort=True) replaced by a confirm whose answer
\* is not looked at: a declined confirmation goes on to the INSERT
start_noabort(project, task, confirm) ==
    /\ db = "ready"
    /\ UNCHANGED <<db, out, pc>>
    /\ \E now \in Reads(clock), last \in LastOf(reg) :
        IF last /= None /\ last.stop = NULL
        THEN IF ~confirm
             THEN /\ Len(reg) < MaxRecords
                  /\ reg' = Insert(reg, project, task, now)
                  /\ ev' = Event("start", "aborted", project, task, now, 0)
                  /\ clock' = Tick(now)
             ELSE \E now2 \in Reads(now) :
                  /\ Len(reg) < MaxRecords
                  /\ reg' = Insert(StopRows(reg, last, now2), project, task, now)
                  /\ ev' = Event("start", "restarted", project, task, now, last.id)
                  /\ clock' = Tick(now2)
        ELSE /\ Len(reg) < MaxRecords
             /\ reg' = Insert(reg, project, task, now)
             /\ ev' = Event("start", "started", project, task, now, 0)
             /\ clock' = Tick(now)

\* registre start PROJECT TASK.  The group callback cli() has run innit, which
\* returned at once on the existing file.  `now` is the clock read on entry; `last` the
\* answer of select_last(); `confirm` the answer to the prompt (FALSE: declined
\* or no answer, click raises Abort); `now2` the clock read by the nested
\* stop(), which repeats select_last() on the unchanged table.
start(project, task, confirm) ==
    /\ db = "ready"
    /\ UNCHANGED <<db, out, pc>>
    /\ \E now \in Reads(clock), last \in LastOf(reg) :
        IF last /= None /\ last.stop = NULL
        THEN IF ~confirm
             THEN /\ reg' = reg
                  /\ ev' = Event("start", "aborted", project, task, now, 0)
                  /\ clock' = Tick(now)
             ELSE \E now2 \in Reads(now) :
                  /\ Len(reg) < MaxRecords
                  /\ reg' = Insert(StopRows(reg, last, now2), project, task, now)
                  /\ ev' = Event("start", "restarted", project, task, now, last.id)
                  /\ clock' = Tick(now2)
        ELSE /\ Len(reg) < MaxRecords
             /\ reg' = Insert(reg, project, task, now)
             /\ ev' = Event("start", "started", project, task, now, 0)
             /\ clock' = Tick(now)

Next ==
    \/ \E a \in Args, confirm \in BOOLEAN : start(a[1], a[2], confirm)
    \/ stop

Spec == Init /\ [][Next]_vars

\* ---- the storage file and statements that raise ----
\* innit without the db_path.exists() test: CREATE TABLE runs on the existing
\* table and raises
innit_noexists ==
    /\ UNCHANGED <<reg, clock, out, pc>>
    /\ IF db = "ready"
       THEN /\ db' = db
            /\ ev' = Event("innit", "raised", "", "", NULL, 0)
       ELSE \E failure \in {"none", "connect", "create"} :
            /\ db' = CASE failure = "none" -> "ready"
                        [] failure = "connect" -> db
                        [] failure = "create" -> "empty"
            /\ ev' = Event("innit", IF failure = "none" THEN "created" ELSE "raised",
                           "", "", NULL, 0)

\* innit(debug): returns at once when the file exists; otherwise connect()
\* creates the file and CREATE TABLE creates the table.  `failure` is the
\* statement that raises: sqlite3.connect (no file is left) or CREATE TABLE
\* (the file that connect created is left, without the table).
innit ==
    /\ UNCHANGED <<reg, clock, out, pc>>
    /\ IF db /= "absent"
       THEN /\ db' = db
            /\ ev' = Event("innit", "existing", "", "", NULL, 0)
       ELSE \E failure \in {"none", "connect", "create"} :
            /\ db' = CASE failure = "none" -> "ready"
                        [] failure = "connect" -> "absent"
                        [] failure = "create" -> "empty"
            /\ ev' = Event("innit", IF failure = "none" THEN "created" ELSE "raised",
                           "", "", NULL, 0)

\* registre stop in which a statement raises: select_last (always so when the
\* table is missing) or the UPDATE, whose transaction is rolled back
stop_raises ==
    /\ db /= "absent"
    /\ UNCHANGED <<db, clock, out, pc>>
    /\ \E failing \in {"select_last", "update"}, last \in LastOf(reg) :
        /\ db = "empty" => failing = "select_last"
        /\ failing = "update" => ~NothingToStop(last)
        /\ reg' = reg
        /\ ev' = Event("stop", "raised", "", "", NULL, 0)

\* registre start in which a statement raises.  select_last, the nested stop and
\* the INSERT each run in a connect() of their own, that is in a transaction of
\* their own: when the INSERT raises, the UPDATE of the nested stop is committed.
start_raises(project, task) ==
    /\ db /= "absent"
    /\ UNCHANGED <<db, out, pc>>
    /\ \E failing \in {"select_last", "stop", "insert"},
          now \in Reads(clock), last \in LastOf(reg) :
        /\ db = "empty" => failing = "select_last"
        /\ failing = "stop" => (last /= None /\ last.stop = NULL)
        /\ IF failing = "insert" /\ last /= None /\ last.stop = NULL
           THEN \E now2 \in Reads(now) :
                /\ reg' = StopRows(reg, last, now2)
                /\ ev' = Event("start", "raised", project, task, now, last.id)
                /\ clock' = Tick(now2)
           ELSE /\ reg' = reg
                /\ ev' = Event("start", "raised", project, task, now, 0)
                /\ clock' = Tick(now)

InitStore ==
    /\ reg = <<>>
    /\ ev = Event("", "", "", "", NULL, 0)
    /\ db = "absent"
    /\ clock = NULL
    /\ out = <<>>
    /\ pc = Idle

NextStore ==
    \/ innit
    \/ \E a \in Args, confirm \in BOOLEAN :
          Len(reg) < StoreRecords /\ start(a[1], a[2], confirm)
    \/ stop
    \/ \E a \in Args : Len(reg) < StoreRecords /\ start_raises(a[1], a[2])
    \/ stop_raises

SpecStore == InitStore /\ [][NextStore]_vars

\* ---- stop run by two processes ----
\* the first half of stop in process p: select_last() in its own connection,
\* and the early return
stop_read(p) ==
    /\ pc[p].at = "idle"
    /\ UNCHANGED <<reg, db, clock, out>>
    /\ \E last \in LastOf(reg) :
        IF NothingToStop(last)
        THEN /\ pc' = pc
             /\ ev' = Event("stop", "nothing", "", "", NULL, 0)
        ELSE /\ pc' = [pc EXCEPT ![p] = [at |-> "write", last |-> last]]
             /\ ev' = Event("stop", "read", "", "", NULL, last.id)

\* the second half of stop in process p: the clock read and the UPDATE by id,
\* committed when the connect() block ends.  The outcome tells whether the row
\* was still open ("stopped") or had been closed since p read it ("reclosed").
stop_write(p) ==
    /\ pc[p].at = "write"
    /\ UNCHANGED <<db, out>>
    /\ \E now \in Reads(clock) :
        /\ reg' = Update(reg, pc[p].last.id, now)
        /\ ev' = Event("stop",
                       IF RowOf(reg, pc[p].last.id).stop = NULL THEN "stopped" ELSE "reclosed",
                       "", "", now, pc[p].last.id)
        /\ clock' = Tick(now)
    /\ pc' = [pc EXCEPT ![p] = [at |-> "idle", last |-> None]]

NextRace ==
    \/ \E a \in Args, confirm \in BOOLEAN :
          Len(reg) < RaceRecords /\ start(a[1], a[2], confirm)
    \/ \E p \in Procs : stop_read(p)
    \/ \E p \in Procs : stop_write(p)

SpecRace == Init /\ [][NextRace]_vars

\* ---- select_last and the report aggregation as functions of the table ----
\* project names of the tables of SpecPure, and their characters as code points
PureProjects == {"", "p1", "p2"}
Code(p) == CASE p = "" -> <<>>
             [] p = "p1" -> <<112, 49>>
             [] p = "p2" -> <<112, 50>>

\* Python's str <: the first differing code point decides, a proper prefix is less
RECURSIVE StrLess(_, _)
StrLess(a, b) ==
    IF b = <<>> THEN FALSE
    ELSE IF a = <<>> THEN TRUE
    ELSE IF Head(a) /= Head(b) THEN Head(a) < Head(b)
    ELSE StrLess(Tail(a), Tail(b))

\* sorted(records, key=lambda x: x.project): stable, a record goes behind the
\* records whose key is not greater
RECURSIVE InsertSorted(_, _)
InsertSorted(x, sq) ==
    IF sq = <<>> THEN <<x>>
    ELSE IF StrLess(Code(x.project), Code(Head(sq).project))
         THEN <<x>> \o sq
         ELSE <<Head(sq)>> \o InsertSorted(x, Tail(sq))

\* the aggregation without sorted(): groupby over the rows as selected
sorted_m(rows) == rows

RECURSIVE sorted(_)
sorted(rows) ==
    IF rows = <<>> THEN <<>>
    ELSE InsertSorted(rows[Len(rows)], sorted(SubSeq(rows, 1, Len(rows) - 1)))

\* itertools.groupby(..., key=lambda x: x.project): a new group starts whenever
\* the key differs from the key of the record before
RECURSIVE groupby(_)
groupby(rows) ==
    IF rows = <<>> THEN <<>>
    ELSE LET rest == groupby(Tail(rows))
         IN  IF rest /= <<>> /\ Head(rest).project = Head(rows).project
             THEN <<[project |-> Head(rows).project,
                     group |-> <<Head(rows)>> \o Head(rest).group]>> \o Tail(rest)
             ELSE <<[project |-> Head(rows).project, group |-> <<Head(rows)>>]>> \o rest

\* [r.stop - r.start for r in group if r.stop is not None]
RECURSIVE project_durations(_)
project_durations(group) ==
    IF group = <<>> THEN <<>>
    ELSE (IF Head(group).stop /= NULL
          THEN <<Head(group).stop - Head(group).start>> ELSE <<>>)
         \o project_durations(Tail(group))

\* sum(project_durations, datetime.timedelta())
RECURSIVE sum(_)
sum(ds) == IF ds = <<>> THEN 0 ELSE Head(ds) + sum(Tail(ds))

\* the rows added to the table of the report, in the order they are added
RECURSIVE table_rows(_)
table_rows(groups) ==
    IF groups = <<>> THEN <<>>
    ELSE (IF project_durations(Head(groups).group) /= <<>>
          THEN <<[project |-> Head(groups).project,
                  total |-> sum(project_durations(Head(groups).group))]>>
          ELSE <<>>)
         \o table_rows(Tail(groups))

\* the loop of report over the selected records
report(records) == table_rows(groupby(sorted(records)))

\* the tables of SpecPure: rows with the ids 1..n, any project, start and stop
PureRecord == [project : PureProjects, start : Times, stop : Times \cup {NULL}]
PureTables ==
    UNION {[1..n -> PureRecord] : n \in 0..PureRows}
AsTable(f) ==
    [i \in 1..Len(f) |-> [id |-> i, project |-> f[i].project, task |-> "t1",
                          start |-> f[i].start, stop |-> f[i].stop]]

InitPure ==
    /\ \E f \in PureTables : reg = AsTable(f)
    /\ ev = Event("", "", "", "", NULL, 0)
    /\ db = "ready"
    /\ clock = NULL
    /\ out = <<>>
    /\ pc = Idle

\* report over the rows of the table, as selected (in rowid order)
do_report ==
    /\ out' = [query |-> "report", arg |-> NoProject, rows |-> report(reg)]
    /\ UNCHANGED <<reg, ev, db, clock, pc>>

\* select_last(project) and select_last()
do_select_last(project) ==
    /\ \E x \in (IF select_last(reg, project) = {} THEN {None}
                 ELSE select_last(reg, project)) :
          out' = [query |-> "select_last", arg |-> project, rows |-> <<x>>]
    /\ UNCHANGED <<reg, ev, db, clock, pc>>

NextPure ==
    \/ do_report
    \/ \E project \in PureProjects \cup {NoProject} : do_select_last(project)

SpecPure == InitPure /\ [][NextPure]_vars

\* ---- the period queries over calendar instants ----
\* datetime.date of the Python library: the proleptic Gregorian calendar by ordinals
is_leap(y) == (y % 4) = 0 /\ ((y % 100) /= 0 \/ (y % 400) = 0)
days_in_month(y, m) ==
    IF m = 2 THEN (IF is_leap(y) THEN 29 ELSE 28)
    ELSE IF m \in {4, 6, 9, 11} THEN 30 ELSE 31
RECURSIVE days_before_month(_, _)
days_before_month(y, m) ==
    IF m = 1 THEN 0 ELSE days_before_month(y, m - 1) + days_in_month(y, m - 1)
days_before_year(y) ==
    ((y - 1) * 365) + ((y - 1) \div 4) - ((y - 1) \div 100) + ((y - 1) \div 400)
\* date.toordinal()
ymd2ord(d) == days_before_year(d.year) + days_before_month(d.year, d.month) + d.day
\* date.fromordinal(n)
ord2ymd(n) ==
    LET n0 == n - 1
        n400 == n0 \div 146097
        r400 == n0 % 146097
        n100 == r400 \div 36524
        r100 == r400 % 36524
        n4 == r100 \div 1461
        r4 == r100 % 1461
        n1 == r4 \div 365
        r1 == r4 % 365
        year == (n400 * 400) + 1 + (n100 * 100) + (n4 * 4) + n1
        leapyear == n1 = 3 /\ (n4 /= 24 \/ n100 = 3)
        month == (r1 + 50) \div 32
        preceding == days_before_month(IF leapyear THEN 4 ELSE 1, month)
    IN  IF n1 = 4 \/ n100 = 4
        THEN [year |-> year - 1, month |-> 12, day |-> 31]
        ELSE IF preceding > r1
             THEN [year |-> year, month |-> month - 1,
                   day |-> r1 - (preceding
                                 - days_in_month(IF leapyear THEN 4 ELSE 1, month - 1)) + 1]
             ELSE [year |-> year, month |-> month, day |-> r1 - preceding + 1]
\* date.weekday(): Monday is 0
weekday(d) == (ymd2ord(d) + 6) % 7
\* date - timedelta(days=k)
minus_days(d, k) == ord2ymd(ymd2ord(d) - k)
\* datetime.now(tz=timezone.utc).date() when the clock reads t
utc_date(t) == ord2ymd((t \div 86400) + 719163)

\* text as the sequence of its code points: digits with leading zeros, '-'
Dig2(n) == <<48 + (n \div 10), 48 + (n % 10)>>
Dig4(n) == <<48 + (n \div 1000), 48 + ((n \div 100) % 10)>> \o Dig2(n % 100)
\* date.strftime("%Y-%m-%d"), also the text sqlite3 binds for a date parameter
strftime_ymd(d) == Dig4(d.year) \o <<45>> \o Dig2(d.month) \o <<45>> \o Dig2(d.day)
\* date.strftime("%Y-%m")
strftime_ym(d) == Dig4(d.year) \o <<45>> \o Dig2(d.month)

\* sqlite: the year, month and day of a unixepoch value t (computeYMD over the
\* Julian day number Z; the millisecond Julian day of t is 1000 t + 210866760000000,
\* so that Z = t div 86400 + 2440588)
sqlite_ymd(t) ==
    LET Z == (t \div 86400) + 2440588
        A0 == (4 * Z - 7468865) \div 146097
        A == Z + 1 + A0 - (A0 \div 4)
        B == A + 1524
        C == (20 * B - 2442) \div 7305
        D == (36525 * C) \div 100
        E == ((B - D) * 10000) \div 306001
        X1 == (306001 * E) \div 10000
        M == IF E < 14 THEN E - 1 ELSE E - 13
    IN  [year |-> IF M > 2 THEN C - 4716 ELSE C - 4715, month |-> M, day |-> B - D - X1]
\* date(start, 'unixepoch')
sqlite_date(t) ==
    LET d == sqlite_ymd(t)
    IN  Dig4(d.year) \o <<45>> \o Dig2(d.month) \o <<45>> \o Dig2(d.day)
\* strftime('%Y-%m', start, 'unixepoch')
sqlite_strftime_ym(t) ==
    LET d == sqlite_ymd(t) IN Dig4(d.year) \o <<45>> \o Dig2(d.month)
\* x BETWEEN a AND b over text
Between(x, a, b) == (a = x \/ StrLess(a, x)) /\ (x = b \/ StrLess(x, b))

\* select_day with the offset added instead of subtracted
select_day_plus(r, now, offset) ==
    LET day == ord2ymd(ymd2ord(utc_date(now)) + offset)
        Test(x) == sqlite_date(x.start) = strftime_ymd(day)
    IN  SelectSeq(r, Test)

\* select_day(offset) when the clock reads now
select_day(r, now, offset) ==
    LET day == minus_days(utc_date(now), offset)
        Test(x) == sqlite_date(x.start) = strftime_ymd(day)
    IN  SelectSeq(r, Test)

\* select_week with end = start + 7 days: the next Monday is taken in
select_week_8days(r, now, offset) ==
    LET week == minus_days(utc_date(now), 7 * offset)
        start_d == minus_days(week, weekday(week))
        end_d == ord2ymd(ymd2ord(start_d) + 7)
        Test(x) == Between(sqlite_date(x.start), strftime_ymd(start_d), strftime_ymd(end_d))
    IN  SelectSeq(r, Test)

\* select_week(offset) when the clock reads now
select_week(r, now, offset) ==
    LET week == minus_days(utc_date(now), 7 * offset)
        start_d == minus_days(week, weekday(week))
        end_d == ord2ymd(ymd2ord(start_d) + 6)
        Test(x) == Between(sqlite_date(x.start), strftime_ymd(start_d), strftime_ymd(end_d))
    IN  SelectSeq(r, Test)

\* the field check of the datetime constructor (year in 1..9999, month in 1..12,
\* day within the month)
valid_date(d) ==
    /\ d.year \in 1..9999
    /\ d.month \in 1..12
    /\ d.day \in 1..days_in_month(d.year, d.month)
\* the answer of the loop when the constructor raises ValueError
NoDate == [year |-> 0, month |-> 0, day |-> 0]

\* the loop of select_month stepping back 30 days instead of to the month before
RECURSIVE month_back_30(_, _)
month_back_30(query_date, k) ==
    IF k <= 0 THEN query_date ELSE month_back_30(minus_days(query_date, 30), k - 1)

\* the loop of select_month: the last day of the month before, offset times
RECURSIVE month_back(_, _)
month_back(query_date, k) ==
    IF k <= 0 THEN query_date
    ELSE LET first == [year |-> query_date.year, month |-> query_date.month, day |-> 1]
         IN  IF valid_date(first)
             THEN month_back(minus_days(first, 1), k - 1)
             ELSE NoDate

\* select_month(offset) when the clock reads now
select_month(r, now, offset) ==
    LET query_date == month_back(utc_date(now), offset)
        Test(x) == sqlite_strftime_ym(x.start) = strftime_ym(query_date)
    IN  SelectSeq(r, Test)

\* calendar dates of the instants of SpecCal, each with its day number since
\* 1970-01-01: the ends of months of 28, 29, 30 and 31 days, two year ends, and
\* the week of Monday 2024-02-26 with the days around it
CalDates ==
    {<<2022, 12, 31, 19357>>, <<2023, 1, 1, 19358>>, <<2023, 1, 31, 19388>>,
     <<2023, 2, 1, 19389>>, <<2023, 2, 28, 19416>>, <<2023, 3, 1, 19417>>,
     <<2023, 3, 31, 19447>>, <<2023, 11, 30, 19691>>, <<2023, 12, 1, 19692>>,
     <<2023, 12, 31, 19722>>, <<2024, 1, 1, 19723>>, <<2024, 1, 31, 19753>>,
     <<2024, 2, 18, 19771>>, <<2024, 2, 19, 19772>>, <<2024, 2, 25, 19778>>,
     <<2024, 2, 26, 19779>>, <<2024, 2, 27, 19780>>, <<2024, 2, 28, 19781>>,
     <<2024, 2, 29, 19782>>, <<2024, 3, 1, 19783>>, <<2024, 3, 2, 19784>>,
     <<2024, 3, 3, 19785>>, <<2024, 3, 4, 19786>>, <<2024, 3, 31, 19813>>}
\* the first and the last second of each of these days, as unixepoch values
CalInstants == {(d[4] * 86400) + sec : d \in CalDates, sec \in {0, 86399}}

\* a table of one row, which every period query tests by itself
InitCal ==
    /\ \E t \in CalInstants :
          reg = <<[id |-> 1, project |-> "p1", task |-> "t1", start |-> t, stop |-> NULL]>>
    /\ ev = Event("", "", "", "", NULL, 0)
    /\ db = "ready"
    /\ clock = NULL
    /\ out = <<>>
    /\ pc = Idle

\* one period query in each behaviour: its answer depends on the table and on
\* the clock read only
Answer(query, offset, now, rows) ==
    [query |-> query, arg |-> offset, now |-> now, rows |-> rows]

do_select_day(offset) ==
    /\ out = <<>>
    /\ \E now \in CalInstants :
          out' = Answer("select_day", offset, now, select_day(reg, now, offset))
    /\ UNCHANGED <<reg, ev, db, clock, pc>>

do_select_week(offset) ==
    /\ out = <<>>
    /\ \E now \in CalInstants :
          out' = Answer("select_week", offset, now, select_week(reg, now, offset))
    /\ UNCHANGED <<reg, ev, db, clock, pc>>

do_select_month(offset) ==
    /\ out = <<>>
    /\ \E now \in CalInstants :
          out' = Answer("select_month", offset, now, select_month(reg, now, offset))
    /\ UNCHANGED <<reg, ev, db, clock, pc>>

NextCal ==
    \/ \E offset \in 0..MaxOffset : do_select_day(offset)
    \/ \E offset \in 0..MaxOffset : do_select_week(offset)
    \/ \E offset \in 0..MaxOffset : do_select_month(offset)

SpecCal == InitCal /\ [][NextCal]_vars

\* ---- the same commands under a strictly increasing clock ----
InitMono ==
    /\ reg = <<>>
    /\ ev = Event("innit", "created", "", "", NULL, 0)
    /\ db = "ready"
    /\ clock = 0
    /\ out = <<>>
    /\ pc = Idle

SpecMono == InitMono /\ [][Next]_vars

TypeOK ==
    /\ reg \in Seq(Record)
    /\ Len(reg) <= MaxRecords

\* ---- shorthands of the properties ----
Last(r) == r[Len(r)]
RowById(r, id) == CHOOSE x \in Rows(r) : x.id = id
Restarted == ev.op = "start" /\ ev.outcome = "restarted"

\* C1: after any sequence of start and stop commands, with any clock values,
\* at most one record has stop = null.
C1_AtMostOneOpen == Cardinality(OpenRows(reg)) <= 1

\* C2: a start of another project with the confirmation accepted has closed the
\* old record with stop >= its start, has appended the new open record with
\* start = the clock value read on entry, and the new record is the only open one.
C2_StartAnotherClosesPrevious ==
    (Restarted /\ RowById(reg, ev.closed).project /= ev.project) =>
        LET old == RowById(reg, ev.closed)
            new == Last(reg)
        IN  /\ old.stop /= NULL
            /\ old.stop >= old.start
            /\ new.project = ev.project /\ new.task = ev.task
            /\ new.start = ev.now
            /\ OpenRows(reg) = {new}

\* C3: in a start with the confirmation accepted, the stop written to the old
\* record equals the start of the new record.
C3_NoGapNoOverlap ==
    Restarted => RowById(reg, ev.closed).stop = Last(reg).start

\* C4: a start whose confirmation is declined leaves the table unchanged.
C4_DeclinedLeavesStore ==
    [][(ev'.op = "start" /\ ev'.outcome = "aborted") => reg' = reg]_vars
C4_Witness ==
    /\ ev.op = "start" /\ ev.outcome = "aborted"
    /\ OpenRows(reg) /= {}
    /\ Len(reg) < MaxRecords

\* C5: stop closes the open interval whenever one exists, so that afterwards no
\* record is open, and answers nothing-to-stop only when no record is open.
C5_StopClosesOpen ==
    [][ev'.op = "stop" =>
        /\ OpenRows(reg) /= {} => (ev'.outcome = "stopped" /\ OpenRows(reg') = {})
        /\ ev'.outcome = "nothing" => OpenRows(reg) = {}]_vars

\* C6: stop when no record is open changes no record and ends with the
\* nothing-to-stop outcome.
C6_StopNothingNoMutation ==
    [][(ev'.op = "stop" /\ OpenRows(reg) = {}) =>
        (reg' = reg /\ ev'.outcome = "nothing")]_vars
C6_Witness ==
    /\ ev.op = "stop" /\ ev.outcome = "nothing"
    /\ reg /= <<>>
    /\ OpenRows(reg) = {}

\* C7: start when no record is open appends exactly the row (next id, project,
\* task, clock value read, null) and changes no existing row; on an empty table
\* the result is the single row with id 1.
C7_StartAppendsOne ==
    [][(ev'.op = "start" /\ OpenRows(reg) = {}) =>
        /\ reg' = Append(reg, [id |-> Len(reg) + 1, project |-> ev'.project,
                               task |-> ev'.task, start |-> ev'.now, stop |-> NULL])
        /\ ev'.outcome = "started"]_vars
C7_Witness ==
    /\ ev.op = "start" /\ ev.outcome = "started"
    /\ Len(reg) = 2
    /\ reg[1].stop /= NULL
    /\ OpenRows(reg) = {reg[2]}

\* C8: no command deletes a record or changes its id, project, task or start;
\* a record whose stop is set is never changed again.
C8_RecordLifecycle ==
    [][/\ Len(reg') >= Len(reg)
       /\ \A i \in 1..Len(reg) :
            /\ reg'[i].id = reg[i].id
            /\ reg'[i].project = reg[i].project
            /\ reg'[i].task = reg[i].task
            /\ reg'[i].start = reg[i].start
            /\ reg[i].stop /= NULL => reg'[i] = reg[i]]_vars
C8_Witness ==
    /\ Restarted
    /\ Len(reg) = 3
    /\ ev.closed = 2
    /\ reg[1].stop /= NULL

\* C9: every record whose stop is set has stop >= start.
C9_NoNegativeDuration ==
    \A x \in Rows(reg) : x.stop /= NULL => x.stop >= x.start

\* C10: ids are unique and increase in insertion order, and an inserted record
\* gets an id greater than every id already in the table.
C10_IdsMonotone ==
    [][/\ \A i, j \in 1..Len(reg') : i < j => reg'[i].id < reg'[j].id
       /\ \A j \in (Len(reg) + 1)..Len(reg') :
            \A i \in 1..Len(reg) : reg'[j].id > reg[i].id]_vars
C10_Witness ==
    /\ ev.op = "start" /\ ev.outcome = "started"
    /\ Len(reg) = MaxRecords

\* C11: innit run on an initialized store does not raise and leaves the table,
\* with every record, as it was.
C11_InnitIdempotent ==
    [][(ev'.op = "innit" /\ db = "ready") =>
        (reg' = reg /\ db' = "ready" /\ ev'.outcome = "existing")]_vars
C11_Witness ==
    /\ ev.op = "innit" /\ ev.outcome = "existing"
    /\ db = "ready"
    /\ Len(reg) >= 2

\* C12: whenever innit returns normally the storage file exists and holds the
\* table reg, whatever state the file was in.
C12_InnitEnsuresTable ==
    [][(ev'.op = "innit" /\ ev'.outcome /= "raised") => db' = "ready"]_vars

\* C13: a start or stop command in which a storage statement raises leaves the
\* table exactly as it was before the command.
C13_CommandAtomic ==
    [][(ev'.op \in {"start", "stop"} /\ ev'.outcome = "raised") => reg' = reg]_vars

\* C14: the report has one row for each project with a closed record, with the
\* sum of stop - start over the closed records of the project, in strictly
\* ascending order of the project names.
RECURSIVE SumOver(_, _)
SumOver(r, I) ==
    IF I = {} THEN 0
    ELSE LET i == CHOOSE j \in I : TRUE
         IN  (r[i].stop - r[i].start) + SumOver(r, I \ {i})
Closed(r, p) == {i \in 1..Len(r) : r[i].project = p /\ r[i].stop /= NULL}
C14_ReportAggregates ==
    (out /= <<>> /\ out.query = "report") =>
        /\ {out.rows[k].project : k \in 1..Len(out.rows)}
              = {p \in PureProjects : Closed(reg, p) /= {}}
        /\ \A k \in 1..Len(out.rows) :
              out.rows[k].total = SumOver(reg, Closed(reg, out.rows[k].project))
        /\ \A k \in 1..(Len(out.rows) - 1) :
              StrLess(Code(out.rows[k].project), Code(out.rows[k + 1].project))
C14_Witness ==
    /\ out /= <<>> /\ out.query = "report"
    /\ Len(reg) = PureRows
    /\ Len(out.rows) = 1
    /\ \E i, j \in 1..Len(reg) :
          /\ reg[i].project /= reg[j].project
          /\ reg[i].stop = NULL /\ reg[j].stop /= NULL
          /\ StrLess(Code(reg[i].project), Code(reg[j].project))

\* C15: select_last(project) returns a record of that project with the greatest
\* start among the records of that project, for every project string, and None
\* exactly when the project has no record; select_last() does so over all records.
C15_SelectLast ==
    (out /= <<>> /\ out.query = "select_last") =>
        LET cand == IF out.arg = NoProject THEN Rows(reg)
                    ELSE {x \in Rows(reg) : x.project = out.arg}
            x == out.rows[1]
        IN  IF cand = {} THEN x = None
            ELSE x \in cand /\ \A y \in cand : y.start <= x.start

\* the calendar date of an instant of SpecCal as CalDates gives it, its day
\* number since 1970-01-01 (a Thursday), its weekday (Monday 0) and its month
RefDay(t) == t \div 86400
RefDate(t) == CHOOSE d \in CalDates : d[4] = RefDay(t)
RefWeekday(n) == (n + 3) % 7
RefMonth(t) == (RefDate(t)[1] * 12) + RefDate(t)[2] - 1
Returned == out.rows = reg
NotReturned == out.rows = <<>>

\* C16: select_day(offset) returns a record exactly when the UTC date of its
\* start is today - offset days, whatever its time of day and its stop.
C16_SelectDay ==
    (out /= <<>> /\ out.query = "select_day") =>
        IF RefDay(reg[1].start) = RefDay(out.now) - out.arg
        THEN Returned ELSE NotReturned
C16_Witness ==
    /\ out /= <<>> /\ out.query = "select_day"
    /\ Returned
    /\ out.arg = 1
    /\ reg[1].start % 86400 = 86399
    /\ out.now % 86400 = 0
    /\ RefDate(out.now)[1] /= RefDate(reg[1].start)[1]

\* C17: select_week(offset) returns a record exactly when the UTC date of its
\* start lies from the Monday to the Sunday of the week of today - offset weeks.
C17_SelectWeek ==
    (out /= <<>> /\ out.query = "select_week") =>
        LET target == RefDay(out.now) - (7 * out.arg)
            monday == target - RefWeekday(target)
        IN  IF monday <= RefDay(reg[1].start) /\ RefDay(reg[1].start) <= monday + 6
            THEN Returned ELSE NotReturned
C17_Witness ==
    /\ out /= <<>> /\ out.query = "select_week"
    /\ Returned
    /\ out.arg = 1
    /\ RefWeekday(RefDay(reg[1].start)) = 6
    /\ RefWeekday(RefDay(out.now)) = 0

\* C18: select_month(offset) returns a record exactly when the UTC start lies in
\* the calendar month offset months before the month of today.
C18_SelectMonth ==
    (out /= <<>> /\ out.query = "select_month") =>
        IF RefMonth(reg[1].start) = RefMonth(out.now) - out.arg
        THEN Returned ELSE NotReturned
C18_Witness ==
    /\ out /= <<>> /\ out.query = "select_month"
    /\ Returned
    /\ out.arg = 12
    /\ RefDate(out.now)[3] = 31
    /\ RefDate(reg[1].start)[3] = 1

\* C19: the write of a stop that read its row while it was open sets stop on
\* that id whether or not the row has been closed since, so that the row ends
\* with the stop of the later writer, and changes no other row.
C19_DoubleClose ==
    [][\A p \in Procs : (pc[p].at = "write" /\ pc'[p].at = "idle") =>
        /\ pc[p].last.stop = NULL
        /\ ev'.closed = pc[p].last.id
        /\ reg' = [i \in 1..Len(reg) |->
                    IF reg[i].id = pc[p].last.id
                    THEN [reg[i] EXCEPT !.stop = ev'.now] ELSE reg[i]]]_vars
C19_Witness ==
    /\ ev.op = "stop" /\ ev.outcome = "reclosed"
    /\ Len(reg) = 1
    /\ reg[1].stop = ev.now
    /\ \A p \in Procs : pc[p].at = "idle"

\* C20: under a strictly increasing clock, in every state some record is open
\* if and only if select_last() returns a record with stop = null, and that
\* record is the only row the stop IS NULL query of `current` returns.
C20_ViewsAgree ==
    /\ (OpenRows(reg) /= {}) <=> (\E l \in LastOf(reg) : l /= None /\ l.stop = NULL)
    /\ \A l \in LastOf(reg) : (l /= None /\ l.stop = NULL) => OpenRows(reg) = {l}
C20_Witness ==
    /\ clock /= NULL
    /\ Restarted
    /\ Len(reg) = MaxRecords
    /\ OpenRows(reg) = {Last(reg)}
====
